---- MODULE Spec2Model ----
(***************************************************************************)
(* Model of the traffic backend (backend/*.go): the Redis subscriber that  *)
(* merges messages into `latest` and enqueues them on `broadcast`, the     *)
(* WebSocket broadcaster that fans each payload out to `clients`, the      *)
(* per-connection WebSocket handler, and the /latest handler.              *)
(***************************************************************************)
EXTENDS Integers, Sequences, FiniteSets, TLC

(***************************************************************************)
(* Bounds of the model.                                                    *)
(***************************************************************************)
\* number of messages the pub/sub channel delivers before it goes quiet, in
\* the queue specification
MaxMsgs == 3
\* the same, in the aggregate specification
AggMsgs == 2
\* the same, in the fan-out specification
FanMsgs == 2
\* capacity of the broadcast channel; make(chan string, 100) in types.go,
\* scaled down so that a full channel is reached within MaxMsgs messages
QueueCap == 2
\* number of WebSocket connections that are made
NumConns == 3
\* number of concurrent /latest requests
NumReaders == 1
\* messages and connections in the locking specification, which has
\* NumReaders requests
LockMsgs == 1
LockConns == 1
\* messages and connections in the pipeline specification: one message
\* more than the channel holds
PipeMsgs == 3
PipeConns == 1
\* messages and concurrent /latest requests in the readers specification
ReadMsgs == 1
ManyReaders == 2

Conns == 1..NumConns
Readers == 1..NumReaders
\* every /latest request of any specification
AllReaders == 1..ManyReaders

(***************************************************************************)
(* Payloads published on the channel.  A payload is the raw text; it is    *)
(* modelled by its structure: a JSON object with the three fields of       *)
(* trafficMessage, or text that json.Unmarshal rejects.                    *)
(***************************************************************************)
Json(ts, n, pk) == [kind |-> "json", timestamp |-> ts, packet_count |-> n, packets |-> pk]
Junk == [kind |-> "junk", timestamp |-> 0, packet_count |-> 0, packets |-> <<>>]

\* the payloads of the aggregate specification: packet_count is published
\* by the sender and need not be the number of packets
Payloads ==
    { Junk,
      Json(1, 1, <<"e1">>),
      Json(1, 3, <<"e2", "e3">>),
      Json(2, 1, <<"e4">>) }

\* the payloads of the fan-out specification
FanPayloads == { Junk, Json(1, 1, <<"e1">>) }

\* records of the RediSearch index idx:packets (hashes under packet:)
Docs == { [id |-> "d1", timestamp |-> 1], [id |-> "d2", timestamp |-> 2] }

\* the index of the fan-out specification
FanDocs == { [id |-> "d1", timestamp |-> 1] }

\* a variant that reports no error and leaves payload zero
Unmarshal_NoError(p) ==
    IF p.kind = "json"
    THEN [err |-> FALSE,
          msg |-> [Timestamp |-> p.timestamp, PacketCount |-> p.packet_count,
                   Packets |-> p.packets]]
    ELSE [err |-> FALSE,
          msg |-> [Timestamp |-> 0, PacketCount |-> 0, Packets |-> <<>>]]

\* json.Unmarshal([]byte(msg.Payload), &payload)
Unmarshal(p) ==
    IF p.kind = "json"
    THEN [err |-> FALSE,
          msg |-> [Timestamp |-> p.timestamp, PacketCount |-> p.packet_count,
                   Packets |-> p.packets]]
    ELSE [err |-> TRUE,
          msg |-> [Timestamp |-> 0, PacketCount |-> 0, Packets |-> <<>>]]

\* the zero value of latestData, and the value initializeEmptyLatest stores
ZeroLatest == [Timestamp |-> 0, PacketCount |-> 0, Packets |-> <<>>]
EmptyLatest == [Timestamp |-> 0, PacketCount |-> 0, Packets |-> <<>>]

\* a merge that leaves the count as it is
AccumulateCount_Skip(l, m) == l

\* same timestamp: latest.PacketCount += payload.PacketCount
AccumulateCount(l, m) == [l EXCEPT !.PacketCount = @ + m.PacketCount]

\* a variant that puts the new packets in front
AccumulatePackets_Prepend(l, m) == [l EXCEPT !.Packets = m.Packets \o @]

\* latest.Packets = append(latest.Packets, payload.Packets...)
AccumulatePackets(l, m) == [l EXCEPT !.Packets = @ \o m.Packets]

\* a replace that takes the count from the number of packets
ReplaceLatest_Recount(m) ==
    [Timestamp |-> m.Timestamp, PacketCount |-> Len(m.Packets), Packets |-> m.Packets]

\* latest = latestData{Timestamp: ..., PacketCount: ..., Packets: ...}
ReplaceLatest(m) ==
    [Timestamp |-> m.Timestamp, PacketCount |-> m.PacketCount, Packets |-> m.Packets]

\* a variant that also accumulates a message older than the snapshot
SameTimestamp_NotNewer(l, m) == m.Timestamp <= l.Timestamp

\* if payload.Timestamp == latest.Timestamp
SameTimestamp(l, m) == m.Timestamp = l.Timestamp

\* holders of clientsMu
Unlocked == << "none" >>
ByDispatch == << "handleMessages" >>
ByConn(c) == << "handleWebSocket", c >>

VARIABLES
    latest,      \* var latest latestData
    latestMuW,   \* latestMu: the goroutine holding the write lock, or "none"
    latestMuR,   \* latestMu: the requests holding a read lock
    clients,     \* var clients map[*websocket.Conn]bool (its key set)
    clientsMu,   \* clientsMu: the goroutine holding it, or "none"
    broadcast,   \* var broadcast chan string (its buffer)
    mpc,         \* main: position
    index,       \* initializeLatestData: the documents of idx:packets
    ierr,        \* initializeLatestData: the step that failed, or "none"
    ipc,         \* startRedisSubscriber: position
    imsg,        \* startRedisSubscriber: msg.Payload of the current iteration
    dpc,         \* handleMessages: position
    dmsg,        \* handleMessages: msg of the current iteration
    dtodo,       \* handleMessages: clients the range loop has yet to visit
    cpc,         \* handleWebSocket: position, per connection
    rpc,         \* handleLatest: position, per request
    rdata,       \* handleLatest: data, per request
    delivered,   \* history: payloads the pub/sub channel has delivered
    atRecv,      \* history: latest when the current message was delivered
    enqueued,    \* history: payloads sent on broadcast
    dequeued,    \* history: payloads received from broadcast (one per cycle)
    merged,      \* history: payloads merged into latest
    hist,        \* history: latest after startup and after each whole merge
    pre,         \* history: latest when the current merge took the lock
    sends,       \* history: per connection, the WriteMessage calls made on it
    cycleStart,  \* history: clients when the current cycle took the lock
    regAt,       \* history: per registered connection, the cycles that had
                 \* taken the lock when it registered
    waitedAt,    \* history: per connection whose registration is pending,
                 \* the cycle that held the registry when it was made, or 0
    rstart,      \* history: per request, merges completed when it began
    rcopied      \* history: per request, merges completed when it copied

vars == << latest, latestMuW, latestMuR, clients, clientsMu, broadcast,
           mpc, index, ierr, ipc, imsg, dpc, dmsg, dtodo, cpc, rpc, rdata,
           delivered, atRecv, enqueued, dequeued, merged, hist, pre, sends,
           cycleStart, waitedAt, regAt, rstart, rcopied >>

mainVars == << mpc, index, ierr >>
aggVars == << latest, latestMuW, latestMuR, hist, pre, merged >>
regVars == << clients, clientsMu, sends, cycleStart, waitedAt, regAt >>
ingVars == << ipc, imsg, delivered, atRecv, enqueued >>
disVars == << dpc, dmsg, dtodo, dequeued >>
reqVars == << rpc, rdata, rstart, rcopied >>

Init ==
    /\ latest = ZeroLatest
    /\ latestMuW = "none"
    /\ latestMuR = {}
    /\ clients = {}
    /\ clientsMu = Unlocked
    /\ broadcast = << >>
    /\ mpc = "init"
    /\ index = {}
    /\ ierr = "none"
    /\ ipc = "off"
    /\ imsg = Junk
    /\ dpc = "off"
    /\ dmsg = Junk
    /\ dtodo = {}
    /\ cpc = [c \in Conns |-> "idle"]
    /\ rpc = [r \in AllReaders |-> "idle"]
    /\ rdata = [r \in AllReaders |-> ZeroLatest]
    /\ delivered = << >>
    /\ atRecv = ZeroLatest
    /\ enqueued = << >>
    /\ dequeued = << >>
    /\ merged = << >>
    /\ hist = << >>
    /\ pre = ZeroLatest
    /\ sends = [c \in Conns |-> << >>]
    /\ cycleStart = {}
    /\ waitedAt = [c \in Conns |-> 0]
    /\ regAt = [c \in Conns |-> 0]
    /\ rstart = [r \in AllReaders |-> 0]
    /\ rcopied = [r \in AllReaders |-> 0]

(***************************************************************************)
(* main                                                                    *)
(***************************************************************************)
\* the process runs until main returns
Running == mpc # "exited"

\* the snapshot initializeLatestData builds from the documents found
Reconstructed(timestamp, docs) ==
    [Timestamp |-> timestamp, PacketCount |-> Len(docs), Packets |-> docs]

\* the orders in which FT.SEARCH may return the documents of idx at timestamp ts
DocsAt(idx, ts) ==
    LET S == { d.id : d \in { e \in idx : e.timestamp = ts } }
    IN  { q \in [1..Cardinality(S) -> S] : \A x \in S : \E i \in DOMAIN q : q[i] = x }

\* a Lock that is granted although read locks are held
CanLock_IgnoreReaders == latestMuW = "none"

\* sync.RWMutex: Lock is granted when nobody holds the lock in either mode
CanLock == latestMuW = "none" /\ latestMuR = {}

\* the steps of initializeLatestData that can fail when the index holds idx:
\* createIndexIfNotExists, FT.AGGREGATE, len(aggResult.Rows) == 0, a nil
\* max_timestamp field, Sscanf, FT.SEARCH
Failures(idx) ==
    { "createIndex", "aggregate" }
    \cup (IF idx = {} THEN { "noRows" } ELSE { "nilField", "sscanf", "search" })

\* the value of max_timestamp in aggResult.Rows[0]: the aggregation groups
\* by @timestamp, so that there is one row for each timestamp of the index,
\* and the rows come in no stated order
FirstRow(idx) == { d.timestamp : d \in idx }

\* a startup whose failure ends the process
InitializeEmpty_Fatal(universe) ==
    /\ mpc = "init"
    /\ \E idx \in SUBSET universe : \E failure \in Failures(idx) :
          /\ index' = idx
          /\ ierr' = failure
    /\ mpc' = "exited"
    /\ UNCHANGED << aggVars, regVars, broadcast, ingVars, disVars, cpc,
                    reqVars >>

\* initializeLatestData: every early return calls initializeEmptyLatest,
\* which takes latestMu.Lock() and stores the empty snapshot
InitializeEmpty(universe) ==
    /\ mpc = "init"
    /\ CanLock
    /\ \E idx \in SUBSET universe : \E failure \in Failures(idx) :
          /\ index' = idx
          /\ ierr' = failure
    /\ latest' = EmptyLatest
    /\ latestMuW' = "main"
    /\ mpc' = "initUnlock"
    /\ UNCHANGED << latestMuR, hist, pre, merged, regVars, broadcast, ingVars,
                    disVars, cpc, reqVars >>

\* initializeLatestData: the path on which every query succeeds, up to
\* latestMu.Lock() and the store of the snapshot built from the documents
\* that FT.SEARCH found at the timestamp of Rows[0]
InitializeFromIndex(universe) ==
    /\ mpc = "init"
    /\ CanLock
    /\ \E idx \in SUBSET universe : \E row \in FirstRow(idx) :
       \E docs \in DocsAt(idx, row) :
          /\ index' = idx
          /\ latest' = Reconstructed(row, docs)
    /\ ierr' = "none"
    /\ latestMuW' = "main"
    /\ mpc' = "initUnlock"
    /\ UNCHANGED << latestMuR, hist, pre, merged, regVars, broadcast, ingVars,
                    disVars, cpc, reqVars >>

\* latestMu.Unlock() of either path; initializeLatestData returns nothing
\* to main, and its locals are gone
InitializeUnlock ==
    /\ mpc = "initUnlock"
    /\ latestMuW' = "none"
    /\ hist' = << latest >>
    /\ mpc' = "goSubscriber"
    /\ index' = {}
    /\ ierr' = "none"
    /\ UNCHANGED << latest, latestMuR, pre, merged, regVars, broadcast, ingVars,
                    disVars, cpc, reqVars >>

\* a subscriber that is started before initializeLatestData is called
GoSubscriber_Early ==
    /\ mpc = "init"
    /\ ipc = "off"
    /\ ipc' = "subscribing"
    /\ UNCHANGED << mainVars, aggVars, regVars, broadcast, imsg, delivered,
                    atRecv, enqueued, disVars, cpc, reqVars >>

\* go startRedisSubscriber(ctx, rdb)
GoSubscriber ==
    /\ mpc = "goSubscriber"
    /\ mpc' = "goMessages"
    /\ ipc' = "subscribing"
    /\ UNCHANGED << index, ierr, aggVars, regVars, broadcast, imsg, delivered, atRecv, enqueued,
                    disVars, cpc, reqVars >>

\* go handleMessages()
GoMessages ==
    /\ mpc = "goMessages"
    /\ mpc' = "listen"
    /\ dpc' = "range"
    /\ UNCHANGED << index, ierr, aggVars, regVars, broadcast, ingVars, dmsg, dtodo, dequeued,
                    cpc, reqVars >>

\* http.ListenAndServe: serves requests, or fails and main returns
ListenAndServe ==
    /\ mpc = "listen"
    /\ \E ok \in BOOLEAN : mpc' = IF ok THEN "serve" ELSE "exited"
    /\ UNCHANGED << index, ierr, aggVars, regVars, broadcast, ingVars, disVars, cpc, reqVars >>

Main(universe) ==
    InitializeEmpty(universe) \/ InitializeFromIndex(universe)
    \/ InitializeUnlock
    \/ GoSubscriber \/ GoMessages \/ ListenAndServe

(***************************************************************************)
(* startRedisSubscriber                                                    *)
(***************************************************************************)
\* pubsub.Receive: the subscription is confirmed, or the function returns
Subscribe ==
    /\ Running
    /\ ipc = "subscribing"
    /\ \E ok \in BOOLEAN : ipc' = IF ok THEN "range" ELSE "failed"
    /\ UNCHANGED << aggVars, regVars, broadcast, imsg, delivered, atRecv, enqueued, mainVars,
                    disVars, cpc, reqVars >>

\* a subscriber that goes on to the loop after pubsub.Receive has failed
SubReceive_AfterError(n, published) ==
    /\ Running
    /\ ipc \in { "range", "failed" }
    /\ Len(delivered) < n
    /\ \E p \in published :
          /\ imsg' = p
          /\ delivered' = Append(delivered, p)
    /\ atRecv' = latest
    /\ ipc' = "send"
    /\ UNCHANGED << aggVars, regVars, broadcast, enqueued, mainVars, disVars, cpc,
                    reqVars >>

\* a subscriber that parses and merges a message without sending it
SubReceive_SkipSend(n, published) ==
    /\ Running
    /\ ipc = "range"
    /\ Len(delivered) < n
    /\ \E p \in published :
          /\ imsg' = p
          /\ delivered' = Append(delivered, p)
    /\ atRecv' = latest
    /\ ipc' = "unmarshal"
    /\ UNCHANGED << aggVars, regVars, broadcast, enqueued, mainVars, disVars, cpc,
                    reqVars >>

\* for msg := range ch: the next message arrives
SubReceive(n, published) ==
    /\ Running
    /\ ipc = "range"
    /\ Len(delivered) < n
    /\ \E p \in published :
          /\ imsg' = p
          /\ delivered' = Append(delivered, p)
    /\ atRecv' = latest
    /\ ipc' = "send"
    /\ UNCHANGED << aggVars, regVars, broadcast, enqueued, mainVars, disVars, cpc,
                    reqVars >>

\* a subscriber that subscribes again when the channel is closed
SubClosed_Resubscribe ==
    /\ Running
    /\ ipc = "range"
    /\ ipc' = "subscribing"
    /\ UNCHANGED << aggVars, regVars, broadcast, imsg, delivered, atRecv,
                    enqueued, mainVars, disVars, cpc, reqVars >>

\* for msg := range ch: the channel is closed and the loop ends
SubClosed ==
    /\ Running
    /\ ipc = "range"
    /\ ipc' = "done"
    /\ UNCHANGED << aggVars, regVars, broadcast, imsg, delivered, atRecv, enqueued, mainVars,
                    disVars, cpc, reqVars >>

\* a variant whose buffer takes one value more
CanSend_OneMore(ch) == Len(ch) <= QueueCap

\* a channel without a capacity: a send never waits
CanSend_Unbounded(ch) == TRUE

\* a send on a buffered channel proceeds when the buffer has room
CanSend(ch) == Len(ch) < QueueCap

\* a variant that puts the value at the front
SendOn_Front(ch, v) == << v >> \o ch

\* the buffer after ch <- v
SendOn(ch, v) == Append(ch, v)

\* a send that gives the payload up when the channel is full
SubSend_DropWhenFull ==
    /\ Running
    /\ ipc = "send"
    /\ broadcast' = IF CanSend(broadcast) THEN SendOn(broadcast, imsg)
                    ELSE broadcast
    /\ enqueued' = IF CanSend(broadcast) THEN Append(enqueued, imsg)
                   ELSE enqueued
    /\ ipc' = "unmarshal"
    /\ UNCHANGED << aggVars, regVars, imsg, delivered, atRecv, mainVars,
                    disVars, cpc, reqVars >>

\* broadcast <- msg.Payload
SubSend ==
    /\ Running
    /\ ipc = "send"
    /\ CanSend(broadcast)
    /\ broadcast' = SendOn(broadcast, imsg)
    /\ enqueued' = Append(enqueued, imsg)
    /\ ipc' = "unmarshal"
    /\ UNCHANGED << aggVars, regVars, imsg, delivered, atRecv, mainVars, disVars, cpc, reqVars >>

\* a variant without the continue: the zero payload goes on to the merge
SubUnmarshalErr_FallThrough ==
    /\ Running
    /\ ipc = "unmarshal"
    /\ Unmarshal(imsg).err
    /\ latestMuW = "none" /\ latestMuR = {}
    /\ latestMuW' = "subscriber"
    /\ pre' = latest
    /\ ipc' = "compare"
    /\ UNCHANGED << latest, latestMuR, hist, merged, regVars, broadcast, imsg,
                    delivered, atRecv, enqueued, mainVars, disVars, cpc, reqVars >>

\* json.Unmarshal fails: continue
SubUnmarshalErr ==
    /\ Running
    /\ ipc = "unmarshal"
    /\ Unmarshal(imsg).err
    /\ ipc' = "range"
    /\ UNCHANGED << aggVars, regVars, broadcast, imsg, delivered, atRecv, enqueued, mainVars,
                    disVars, cpc, reqVars >>

\* a merge that takes clientsMu together with latestMu
SubLock_AndClients ==
    /\ Running
    /\ ipc = "unmarshal"
    /\ ~Unmarshal(imsg).err
    /\ CanLock
    /\ clientsMu = << "none" >>
    /\ clientsMu' = << "subscriber" >>
    /\ latestMuW' = "subscriber"
    /\ pre' = latest
    /\ ipc' = "compare"
    /\ UNCHANGED << latest, latestMuR, hist, merged, clients, sends, cycleStart, waitedAt, regAt,
                    broadcast, imsg, delivered, atRecv, enqueued, mainVars, disVars,
                    cpc, reqVars >>

\* a merge that can begin while the payload still waits to be sent
SubLock_Unsent ==
    /\ Running
    /\ ipc \in { "send", "unmarshal" }
    /\ ~Unmarshal(imsg).err
    /\ CanLock
    /\ latestMuW' = "subscriber"
    /\ pre' = latest
    /\ ipc' = "compare"
    /\ UNCHANGED << latest, latestMuR, hist, merged, regVars, broadcast, imsg,
                    delivered, atRecv, enqueued, mainVars, disVars, cpc,
                    reqVars >>

\* json.Unmarshal succeeds; latestMu.Lock()
SubLock ==
    /\ Running
    /\ ipc = "unmarshal"
    /\ ~Unmarshal(imsg).err
    /\ CanLock
    /\ latestMuW' = "subscriber"
    /\ pre' = latest
    /\ ipc' = "compare"
    /\ UNCHANGED << latest, latestMuR, hist, merged, regVars, broadcast, imsg,
                    delivered, atRecv, enqueued, mainVars, disVars, cpc, reqVars >>

\* same timestamp: latest.PacketCount += payload.PacketCount
SubAccumulateCount ==
    /\ Running
    /\ ipc = "compare"
    /\ SameTimestamp(latest, Unmarshal(imsg).msg)
    /\ latest' = AccumulateCount(latest, Unmarshal(imsg).msg)
    /\ ipc' = "append"
    /\ UNCHANGED << latestMuW, latestMuR, hist, pre, merged, regVars, broadcast,
                    imsg, delivered, atRecv, enqueued, mainVars, disVars, cpc, reqVars >>

\* same timestamp: latest.Packets = append(latest.Packets, payload.Packets...)
SubAccumulatePackets ==
    /\ Running
    /\ ipc = "append"
    /\ latest' = AccumulatePackets(latest, Unmarshal(imsg).msg)
    /\ ipc' = "unlock"
    /\ UNCHANGED << latestMuW, latestMuR, hist, pre, merged, regVars, broadcast,
                    imsg, delivered, atRecv, enqueued, mainVars, disVars, cpc, reqVars >>

\* different timestamp: latest = latestData{...}
SubReplace ==
    /\ Running
    /\ ipc = "compare"
    /\ ~SameTimestamp(latest, Unmarshal(imsg).msg)
    /\ latest' = ReplaceLatest(Unmarshal(imsg).msg)
    /\ ipc' = "unlock"
    /\ UNCHANGED << latestMuW, latestMuR, hist, pre, merged, regVars, broadcast,
                    imsg, delivered, atRecv, enqueued, mainVars, disVars, cpc, reqVars >>

\* latestMu.Unlock(); the loop goes on to the next message
SubUnlock ==
    /\ Running
    /\ ipc = "unlock"
    /\ latestMuW' = "none"
    /\ hist' = Append(hist, latest)
    /\ merged' = Append(merged, imsg)
    /\ ipc' = "range"
    /\ UNCHANGED << latest, latestMuR, pre, regVars, broadcast, imsg, delivered,
                    atRecv, enqueued, mainVars, disVars, cpc, reqVars >>

Subscriber(n, published) ==
    Subscribe \/ SubReceive(n, published) \/ SubClosed \/ SubSend \/ SubUnmarshalErr
    \/ SubLock \/ SubAccumulateCount \/ SubAccumulatePackets \/ SubReplace
    \/ SubUnlock

(***************************************************************************)
(* handleMessages                                                          *)
(***************************************************************************)
\* a receive on a buffered channel proceeds when the buffer holds a value
CanReceive(ch) == Len(ch) > 0

\* a variant that receives the newest value
RecvValue_Newest(ch) == ch[Len(ch)]

\* a variant in which a receive leaves the value in the buffer
RecvRest_Peek(ch) == ch

\* the value v := <-ch receives, and the buffer it leaves
RecvValue(ch) == Head(ch)
RecvRest(ch) == Tail(ch)

\* for msg := range broadcast
MsgReceive ==
    /\ Running
    /\ dpc = "range"
    /\ CanReceive(broadcast)
    /\ dmsg' = RecvValue(broadcast)
    /\ broadcast' = RecvRest(broadcast)
    /\ dequeued' = Append(dequeued, RecvValue(broadcast))
    /\ dpc' = "lock"
    /\ UNCHANGED << aggVars, regVars, ingVars, mainVars, dtodo, cpc, reqVars >>

\* a Lock of clientsMu that is granted while the mutex is held
CanLockClients_Held == TRUE

\* sync.Mutex: Lock is granted when nobody holds the mutex
CanLockClients == clientsMu = Unlocked

\* clientsMu.Lock(); the range over clients starts
MsgLock ==
    /\ Running
    /\ dpc = "lock"
    /\ CanLockClients
    /\ clientsMu' = ByDispatch
    /\ dtodo' = clients
    /\ cycleStart' = clients
    /\ UNCHANGED << waitedAt, regAt >>
    /\ dpc' = "send"
    /\ UNCHANGED << aggVars, clients, sends, broadcast, ingVars, mainVars, dmsg,
                    dequeued, cpc, reqVars >>

\* a variant that keeps a client whose write failed
AfterWrite_Keep(cl, client, ok) == cl

\* a variant that deletes the client after every write
AfterWrite_Evict(cl, client, ok) == cl \ {client}

\* the registry after the WriteMessage to client returned: delete on error
AfterWrite(cl, client, ok) == IF ok THEN cl ELSE cl \ {client}

\* a variant that leaves the loop at the first failed write
RangeRest_Break(todo, client, ok) == IF ok THEN todo \ {client} ELSE {}

\* the clients the range loop has yet to visit after visiting client: the
\* loop goes on to the next client, whether or not the write failed
RangeRest(todo, client, ok) == todo \ {client}

\* one iteration of for client := range clients: WriteMessage, and delete
\* on error
MsgSend ==
    /\ Running
    /\ dpc = "send"
    /\ \E client \in dtodo : \E ok \in BOOLEAN :
          /\ sends' = [sends EXCEPT ![client] =
                          Append(@, [cycle |-> Len(dequeued), payload |-> dmsg,
                                     ok |-> ok])]
          /\ clients' = AfterWrite(clients, client, ok)
          /\ dtodo' = RangeRest(dtodo, client, ok)
    /\ UNCHANGED << aggVars, clientsMu, cycleStart, waitedAt, regAt, broadcast, ingVars, mainVars, dpc,
                    dmsg, dequeued, cpc, reqVars >>

\* the range over clients is exhausted
MsgSent ==
    /\ Running
    /\ dpc = "send"
    /\ dtodo = {}
    /\ dpc' = "unlock"
    /\ UNCHANGED << aggVars, regVars, broadcast, ingVars, mainVars, dmsg, dtodo,
                    dequeued, cpc, reqVars >>

\* a dispatcher that returns after its first cycle
MsgUnlock_Return ==
    /\ Running
    /\ dpc = "unlock"
    /\ clientsMu' = Unlocked
    /\ cycleStart' = {}
    /\ dpc' = "off"
    /\ UNCHANGED << aggVars, clients, sends, waitedAt, regAt, broadcast,
                    ingVars, mainVars, dmsg, dtodo, dequeued, cpc, reqVars >>

\* a cycle that ends without the Unlock
MsgUnlock_Keep ==
    /\ Running
    /\ dpc = "unlock"
    /\ cycleStart' = {}
    /\ dpc' = "range"
    /\ UNCHANGED << aggVars, clients, clientsMu, sends, waitedAt, regAt, broadcast,
                    ingVars, mainVars, dmsg, dtodo, dequeued, cpc, reqVars >>

\* clientsMu.Unlock()
MsgUnlock ==
    /\ Running
    /\ dpc = "unlock"
    /\ clientsMu' = Unlocked
    /\ cycleStart' = {}
    /\ UNCHANGED << waitedAt, regAt >>
    /\ dpc' = "range"
    /\ UNCHANGED << aggVars, clients, sends, broadcast, ingVars, mainVars,
                    dmsg, dtodo, dequeued, cpc, reqVars >>

Messages == MsgReceive \/ MsgLock \/ MsgSend \/ MsgSent \/ MsgUnlock

\* handleMessages while no connection is ever made: the range over clients
\* has nothing to visit
MessagesNoClients == MsgReceive \/ MsgLock \/ MsgSent \/ MsgUnlock

(***************************************************************************)
(* handleWebSocket, one per connection                                     *)
(***************************************************************************)
Serving == mpc = "serve"

\* the dispatch cycles that have taken clientsMu
CyclesBegun == IF dpc = "lock" THEN Len(dequeued) - 1 ELSE Len(dequeued)

\* upgrader.Upgrade: connection c is made, or an error and return (no
\* connection exists then, and c stands for a later one)
WsUpgrade(c) ==
    /\ Serving
    /\ cpc[c] = "idle"
    /\ \E ok \in BOOLEAN :
          /\ cpc' = [cpc EXCEPT ![c] = IF ok THEN "register" ELSE "idle"]
          /\ waitedAt' = [waitedAt EXCEPT ![c] =
                              IF ok /\ clientsMu = ByDispatch
                              THEN Len(dequeued) ELSE 0]
    /\ UNCHANGED << aggVars, clients, clientsMu, sends, cycleStart, regAt, broadcast,
                    ingVars, mainVars, disVars, reqVars >>

\* clientsMu.Lock() before the insert or the delete
WsLock(c) ==
    /\ Running
    /\ cpc[c] \in { "register", "unregister" }
    /\ CanLockClients
    /\ clientsMu' = ByConn(c)
    /\ cpc' = [cpc EXCEPT ![c] = IF @ = "register" THEN "insert" ELSE "delete"]
    /\ UNCHANGED << aggVars, clients, sends, cycleStart, waitedAt, regAt, broadcast, ingVars, mainVars,
                    disVars, reqVars >>

\* a registration that returns without the insert
WsInsert_Forget(c) ==
    /\ Running
    /\ cpc[c] = "insert"
    /\ clientsMu' = Unlocked
    /\ cpc' = [cpc EXCEPT ![c] = "read"]
    /\ waitedAt' = [waitedAt EXCEPT ![c] = 0]
    /\ regAt' = [regAt EXCEPT ![c] = CyclesBegun]
    /\ UNCHANGED << aggVars, clients, sends, cycleStart, broadcast, ingVars,
                    mainVars, disVars, reqVars >>

\* clients[conn] = true; clientsMu.Unlock()
WsInsert(c) ==
    /\ Running
    /\ cpc[c] = "insert"
    /\ clients' = clients \cup {c}
    /\ clientsMu' = Unlocked
    /\ cpc' = [cpc EXCEPT ![c] = "read"]
    /\ waitedAt' = [waitedAt EXCEPT ![c] = 0]
    /\ regAt' = [regAt EXCEPT ![c] = CyclesBegun]
    /\ UNCHANGED << aggVars, sends, cycleStart, broadcast, ingVars, mainVars, disVars,
                    reqVars >>

\* conn.ReadMessage returns a message, which is logged
WsRead(c) ==
    /\ Running
    /\ cpc[c] = "read"
    /\ UNCHANGED vars

\* a connection task that registers again after a read error
WsReadErr_Reconnect(c) ==
    /\ Running
    /\ cpc[c] = "read"
    /\ cpc' = [cpc EXCEPT ![c] = "register"]
    /\ UNCHANGED << aggVars, regVars, broadcast, ingVars, mainVars, disVars,
                    reqVars >>

\* conn.ReadMessage returns an error
WsReadErr(c) ==
    /\ Running
    /\ cpc[c] = "read"
    /\ cpc' = [cpc EXCEPT ![c] = "unregister"]
    /\ UNCHANGED << aggVars, regVars, broadcast, ingVars, mainVars, disVars, reqVars >>

\* an unregistration that returns without the Unlock
WsDelete_Held(c) ==
    /\ Running
    /\ cpc[c] = "delete"
    /\ clients' = clients \ {c}
    /\ cpc' = [cpc EXCEPT ![c] = "closed"]
    /\ regAt' = [regAt EXCEPT ![c] = 0]
    /\ UNCHANGED << aggVars, clientsMu, sends, cycleStart, waitedAt, broadcast,
                    ingVars, mainVars, disVars, reqVars >>

\* an unregistration that empties the registry
WsDelete_Clear(c) ==
    /\ Running
    /\ cpc[c] = "delete"
    /\ clients' = {}
    /\ clientsMu' = Unlocked
    /\ cpc' = [cpc EXCEPT ![c] = "closed"]
    /\ regAt' = [regAt EXCEPT ![c] = 0]
    /\ UNCHANGED << aggVars, sends, cycleStart, waitedAt, broadcast, ingVars, mainVars, disVars,
                    reqVars >>

\* delete(clients, conn); clientsMu.Unlock(); return (conn.Close() is deferred)
WsDelete(c) ==
    /\ Running
    /\ cpc[c] = "delete"
    /\ clients' = clients \ {c}
    /\ clientsMu' = Unlocked
    /\ cpc' = [cpc EXCEPT ![c] = "closed"]
    /\ regAt' = [regAt EXCEPT ![c] = 0]
    /\ UNCHANGED << aggVars, sends, cycleStart, waitedAt, broadcast, ingVars, mainVars, disVars,
                    reqVars >>

WebSocket(cs) == \E c \in cs :
    WsUpgrade(c) \/ WsLock(c) \/ WsInsert(c) \/ WsRead(c) \/ WsReadErr(c) \/ WsDelete(c)

(***************************************************************************)
(* handleLatest, one per request                                           *)
(***************************************************************************)
\* a request for /latest arrives
LatestBegin(r) ==
    /\ Serving
    /\ rpc[r] = "idle"
    /\ rpc' = [rpc EXCEPT ![r] = "rlock"]
    /\ rstart' = [rstart EXCEPT ![r] = Len(hist) - 1]
    /\ UNCHANGED << aggVars, regVars, broadcast, ingVars, mainVars, disVars, cpc, rdata,
                    rcopied >>

\* a variant that reads without regard to the writer
CanRLock_Unguarded == TRUE

\* sync.RWMutex: RLock is granted when no writer holds the lock
CanRLock == latestMuW = "none"

\* latestMu.RLock()
LatestRLock(r) ==
    /\ Running
    /\ rpc[r] = "rlock"
    /\ CanRLock
    /\ latestMuR' = latestMuR \cup {r}
    /\ rpc' = [rpc EXCEPT ![r] = "copy"]
    /\ UNCHANGED << latest, latestMuW, hist, pre, merged, regVars, broadcast,
                    ingVars, mainVars, disVars, cpc, rdata, rstart, rcopied >>

\* a request that clears the snapshot it has copied
LatestCopy_Clear(r) ==
    /\ Running
    /\ rpc[r] = "copy"
    /\ rdata' = [rdata EXCEPT ![r] = latest]
    /\ rcopied' = [rcopied EXCEPT ![r] = Len(hist) - 1]
    /\ rpc' = [rpc EXCEPT ![r] = "runlock"]
    /\ latest' = EmptyLatest
    /\ UNCHANGED << latestMuW, latestMuR, hist, pre, merged, regVars, broadcast,
                    ingVars, mainVars, disVars, cpc, rstart >>

\* data := latest
LatestCopy(r) ==
    /\ Running
    /\ rpc[r] = "copy"
    /\ rdata' = [rdata EXCEPT ![r] = latest]
    /\ rcopied' = [rcopied EXCEPT ![r] = Len(hist) - 1]
    /\ rpc' = [rpc EXCEPT ![r] = "runlock"]
    /\ UNCHANGED << aggVars, regVars, broadcast, ingVars, mainVars, disVars, cpc, rstart >>

\* latestMu.RUnlock()
LatestRUnlock(r) ==
    /\ Running
    /\ rpc[r] = "runlock"
    /\ latestMuR' = latestMuR \ {r}
    /\ rpc' = [rpc EXCEPT ![r] = "encode"]
    /\ UNCHANGED << latest, latestMuW, hist, pre, merged, regVars, broadcast,
                    ingVars, mainVars, disVars, cpc, rdata, rstart, rcopied >>

\* json.NewEncoder(w).Encode(data): the response, or the 500 response
LatestEncode(r) ==
    /\ Running
    /\ rpc[r] = "encode"
    /\ \E ok \in BOOLEAN : rpc' = [rpc EXCEPT ![r] = "idle"]
    /\ rdata' = [rdata EXCEPT ![r] = ZeroLatest]
    /\ rstart' = [rstart EXCEPT ![r] = 0]
    /\ rcopied' = [rcopied EXCEPT ![r] = 0]
    /\ UNCHANGED << aggVars, regVars, broadcast, ingVars, mainVars, disVars, cpc >>

Latest(rs) == \E r \in rs :
    LatestBegin(r) \/ LatestRLock(r) \/ LatestCopy(r) \/ LatestRUnlock(r)
    \/ LatestEncode(r)

\* the queue path: messages are enqueued, merged and dequeued while no
\* request of either kind is made
NextQueue == Main(Docs) \/ Subscriber(MaxMsgs, Payloads) \/ MessagesNoClients

SpecQueue == Init /\ [][NextQueue]_vars

\* the queue path with the scheduling of goroutines: main, the subscriber
\* and the dispatcher each take a step that stays possible; the subscriber's
\* step at the loop head is a receive or, after at most MaxMsgs messages,
\* the closure of the channel
SpecQueueFair ==
    /\ SpecQueue
    /\ WF_vars(Main(Docs))
    /\ WF_vars(Subscriber(MaxMsgs, Payloads))
    /\ WF_vars(MessagesNoClients)

\* the aggregate path: messages are merged while /latest requests are served
\* and no WebSocket connection is made
NextAgg == Main(Docs) \/ Subscriber(AggMsgs, Payloads) \/ MessagesNoClients
           \/ Latest(Readers)

SpecAgg == Init /\ [][NextAgg]_vars

\* the fan-out path: messages are broadcast while connections come and go
\* and no /latest request is made
NextFan == Main(FanDocs) \/ Subscriber(FanMsgs, FanPayloads) \/ Messages
           \/ WebSocket(Conns)

SpecFan == Init /\ [][NextFan]_vars

\* the locking path: every kind of task runs, so that both mutexes are in
\* use at the same time
NextLock == Main(FanDocs) \/ Subscriber(LockMsgs, FanPayloads) \/ Messages
            \/ WebSocket(1..LockConns) \/ Latest(Readers)

SpecLock == Init /\ [][NextLock]_vars

\* the pipeline path with the scheduling of goroutines: the channel fills
\* up while connections come and go.  main, the subscriber and the
\* dispatcher each take a step that stays possible, every WriteMessage
\* returns, a connection task that holds clientsMu goes on, and one that
\* waits for clientsMu gets it if it is free again and again.
NextPipe == Main(FanDocs) \/ Subscriber(PipeMsgs, FanPayloads) \/ Messages
            \/ WebSocket(1..PipeConns)

SpecPipeFair ==
    /\ Init /\ [][NextPipe]_vars
    /\ WF_vars(Main(FanDocs))
    /\ WF_vars(Subscriber(PipeMsgs, FanPayloads))
    /\ WF_vars(Messages)
    /\ \A c \in 1..PipeConns :
          /\ SF_vars(WsLock(c))
          /\ WF_vars(WsInsert(c) \/ WsDelete(c))

\* the readers path: several /latest requests run at the same time as the
\* startup write and the merges, and no WebSocket connection is made
NextReaders == Main(FanDocs) \/ Subscriber(ReadMsgs, FanPayloads)
               \/ MessagesNoClients \/ Latest(AllReaders)

SpecReaders == Init /\ [][NextReaders]_vars

(***************************************************************************)
(* Properties                                                              *)
(***************************************************************************)
\* the message of the merge in progress
Incoming == Unmarshal(imsg).msg

\* the merge in progress has made its last write to latest and still holds
\* the lock
MergeApplied == ipc = "unlock"

\* C1 (accumulate law): when a parsed message whose timestamp equals the
\* snapshot's has been merged, the timestamp is unchanged, PacketCount is the
\* old PacketCount plus the message's, and Packets is the old Packets
\* followed by the message's, in order.
C1_AccumulateLaw ==
    (MergeApplied /\ Incoming.Timestamp = pre.Timestamp) =>
        /\ latest.Timestamp = pre.Timestamp
        /\ latest.PacketCount = pre.PacketCount + Incoming.PacketCount
        /\ latest.Packets = pre.Packets \o Incoming.Packets

\* an accumulation onto a snapshot that already held packets, of a message
\* whose count is not its number of packets
C1_Witness ==
    /\ MergeApplied
    /\ Incoming.Timestamp = pre.Timestamp
    /\ pre.Packets # << >>
    /\ Incoming.PacketCount # Len(Incoming.Packets)
    /\ latest.PacketCount = pre.PacketCount + Incoming.PacketCount

\* C2 (replace law): when a parsed message whose timestamp differs from the
\* snapshot's (larger or smaller) has been merged, the snapshot is the
\* message's timestamp, count and packets, and keeps nothing of the old one.
C2_ReplaceLaw ==
    (MergeApplied /\ Incoming.Timestamp # pre.Timestamp) =>
        /\ latest.Timestamp = Incoming.Timestamp
        /\ latest.PacketCount = Incoming.PacketCount
        /\ latest.Packets = Incoming.Packets

\* a replace by a message with a smaller timestamp, of a snapshot that held
\* packets
C2_Witness ==
    /\ MergeApplied
    /\ Incoming.Timestamp < pre.Timestamp
    /\ pre.Packets # << >>
    /\ latest.Packets = Incoming.Packets

\* the request has copied the snapshot
HasCopied(r) == rpc[r] \in { "runlock", "encode" }

\* C3 (read isolation): the snapshot a /latest request copies is latest as
\* it was after a whole number k of merges, k being the merges completed at
\* the copy, which is no fewer than the merges completed when the request
\* began; it is never a mix of two merges.
C3_ReadIsolation ==
    \A r \in Readers :
        HasCopied(r) =>
            /\ rstart[r] <= rcopied[r]
            /\ rcopied[r] < Len(hist)
            /\ rdata[r] = hist[rcopied[r] + 1]

\* a request that began before a merge and copied after it, answering while
\* the next merge has written the count and not yet the packets
C3_Witness ==
    \E r \in Readers :
        /\ rpc[r] = "encode"
        /\ rstart[r] < rcopied[r]
        /\ ipc = "append"
        /\ rdata[r] # latest
        /\ rdata[r] = hist[Len(hist)]

\* the dispatch cycle in progress, and the WriteMessage calls it made on c
ThisCycle == Len(dequeued)
SendsIn(c, k) == { i \in DOMAIN sends[c] : sends[c][i].cycle = k }

\* the range over clients is over and the cycle still holds clientsMu
CycleEnded == dpc = "unlock"

\* the write to c failed in the cycle in progress
FailedNow(c) == \E i \in SendsIn(c, ThisCycle) : ~sends[c][i].ok

\* C4 (delivery completeness under failure): when a cycle over a registry
\* ends in which the send to one target failed, every other target of the
\* cycle was sent the payload and the failed target is out of the registry;
\* and no send is ever attempted on a target after a failed send to it.
C4_DeliveryCompleteness ==
    /\ CycleEnded =>
          \A b \in cycleStart :
              FailedNow(b) =>
                  /\ b \notin clients
                  /\ \A a \in cycleStart \ {b} :
                        \E i \in SendsIn(a, ThisCycle) : sends[a][i].payload = dmsg
    /\ \A c \in Conns :
          \A i \in DOMAIN sends[c] : i < Len(sends[c]) => sends[c][i].ok

\* the second cycle has ended; the first went over three targets, of which
\* the second failed and the others were served, and the second cycle served
\* the two that were left and did not try the one that had failed
C4_Witness ==
    /\ CycleEnded
    /\ ThisCycle = 2
    /\ cycleStart = {1, 3}
    /\ clients = {1, 3}
    /\ sends[2] = << [cycle |-> 1, payload |-> dequeued[1], ok |-> FALSE] >>
    /\ \A a \in {1, 3} :
          /\ Len(sends[a]) = 2
          /\ \A i \in {1, 2} : sends[a][i].cycle = i /\ sends[a][i].ok

\* C5 (exactly once per cycle): when a cycle ends, every target that was in
\* the registry from its start to its end was sent the cycle's payload
\* exactly once, however many other targets failed; and at no time has a
\* target been sent anything twice in one cycle.
C5_ExactlyOncePerCycle ==
    /\ CycleEnded =>
          \A c \in cycleStart \cap clients :
              /\ Cardinality(SendsIn(c, ThisCycle)) = 1
              /\ \A i \in SendsIn(c, ThisCycle) :
                    sends[c][i].ok /\ sends[c][i].payload = dmsg
    /\ \A c \in Conns : \A k \in 1..ThisCycle : Cardinality(SendsIn(c, k)) <= 1

\* a cycle over every connection has ended in which all but one failed
C5_Witness ==
    /\ CycleEnded
    /\ cycleStart = Conns
    /\ Cardinality(clients) = 1
    /\ \A c \in clients : Cardinality(SendsIn(c, ThisCycle)) = 1
    /\ \A c \in Conns \ clients : FailedNow(c)

\* the subscriber is at broadcast <- msg.Payload
AtSend == Running /\ ipc = "send"

\* C6 (backpressure): the send on broadcast can proceed exactly when fewer
\* than QueueCap payloads have been enqueued and not yet dequeued: the first
\* QueueCap sends without a dequeue proceed, the next one waits until a
\* dequeue, and a send waits only on a full queue.
C6_Backpressure ==
    /\ Len(enqueued) - Len(dequeued) <= QueueCap
    /\ AtSend => ((ENABLED SubSend) <=> (Len(enqueued) - Len(dequeued) < QueueCap))

\* QueueCap payloads are enqueued, none is dequeued, and the next send waits
C6_Witness ==
    /\ AtSend
    /\ Len(enqueued) = QueueCap
    /\ Len(dequeued) = 0
    /\ ~ENABLED SubSend

\* C7 (FIFO): the payloads dequeued so far followed by those in the queue
\* are the payloads enqueued so far, in the order they were enqueued.
C7_FifoOrder == dequeued \o broadcast = enqueued

\* QueueCap + 1 payloads were enqueued, the first two of them different, one
\* was dequeued, and the queue holds the others in order
C7_Witness ==
    /\ Len(enqueued) = QueueCap + 1
    /\ Len(dequeued) = 1
    /\ enqueued[1] # enqueued[2]
    /\ dequeued[1] = enqueued[1]
    /\ broadcast = SubSeq(enqueued, 2, QueueCap + 1)

\* the payload is text json.Unmarshal accepts
Parses(p) == p.kind = "json"
ParsedOf(q) == SelectSeq(q, Parses)

\* C8 (parse-failure forwarding): a payload that does not parse is enqueued
\* as delivered, is sent as delivered to every target of its dispatch cycle,
\* and leaves latest as it was when the payload was delivered.
C8_ParseFailureForwarding ==
    /\ (Len(delivered) > 0 /\ ~Parses(imsg)) =>
          /\ latest = atRecv
          /\ ipc # "send" => (Len(enqueued) = Len(delivered)
                              /\ enqueued[Len(enqueued)] = imsg)
    /\ (CycleEnded /\ ~Parses(delivered[ThisCycle])) =>
          \A c \in cycleStart :
              \E i \in SendsIn(c, ThisCycle) :
                  sends[c][i].payload = delivered[ThisCycle]

\* a payload that does not parse was delivered to a snapshot that held
\* packets, and its cycle, over two targets or more, has ended
C8_Witness ==
    /\ CycleEnded
    /\ ~Parses(imsg)
    /\ ThisCycle = Len(delivered)
    /\ ipc = "range"
    /\ Cardinality(cycleStart) >= 2
    /\ \E c \in clients : \E i \in SendsIn(c, ThisCycle) : sends[c][i].payload = imsg
    /\ latest.Packets # << >>

\* C9 (ingest order): the payloads enqueued are the payloads delivered, in
\* order, up to at most the one just delivered; the payloads merged are the
\* delivered payloads that parse, in order, up to the one being processed.
C9_IngestOrder ==
    /\ Len(enqueued) <= Len(delivered)
    /\ Len(delivered) <= Len(enqueued) + 1
    /\ enqueued = SubSeq(delivered, 1, Len(enqueued))
    /\ Len(merged) <= Len(ParsedOf(delivered))
    /\ Len(ParsedOf(delivered)) <= Len(merged) + 1
    /\ merged = SubSeq(ParsedOf(delivered), 1, Len(merged))

\* three payloads were delivered, the second of which does not parse, and
\* the other two were merged
C9_Witness ==
    /\ Len(delivered) = 3
    /\ ~Parses(delivered[2])
    /\ delivered[1] # delivered[3]
    /\ merged = << delivered[1], delivered[3] >>
    /\ enqueued = delivered

\* C10 (per-target order): the payloads sent to a target are payloads of
\* the source at increasing positions: each send carries the payload the
\* source delivered at the position of its cycle, and a later send is of a
\* later position.
C10_PerTargetOrder ==
    \A c \in Conns :
        /\ \A i \in DOMAIN sends[c] :
              /\ sends[c][i].cycle \in DOMAIN delivered
              /\ sends[c][i].payload = delivered[sends[c][i].cycle]
        /\ \A i, j \in DOMAIN sends[c] :
              i < j => sends[c][i].cycle < sends[c][j].cycle

\* a target was sent two different payloads
C10_Witness ==
    \E c \in Conns :
        /\ Len(sends[c]) = 2
        /\ sends[c][1].ok /\ sends[c][2].ok
        /\ sends[c][1].payload # sends[c][2].payload
        /\ sends[c][1].payload = delivered[1]

\* the tasks that are between Lock and Unlock of latestMu
WritersInside ==
    (IF mpc = "initUnlock" THEN { "main" } ELSE {})
    \cup (IF ipc \in { "compare", "append", "unlock" } THEN { "subscriber" }
          ELSE {})

\* the requests that are between RLock and RUnlock of latestMu
ReadersInside == { r \in AllReaders : rpc[r] \in { "copy", "runlock" } }

\* C11: at most one task is inside a write critical section of the snapshot
\* lock (a merge or the startup initialisation), and while one is inside no
\* reader is inside; readers are not excluded by each other.
C11_ReaderWriterExclusion ==
    /\ Cardinality(WritersInside) <= 1
    /\ WritersInside # {} => ReadersInside = {}

\* two readers are inside at the same time, after the startup write, while
\* the subscriber has a parsed message and waits for the write lock
C11_Witness ==
    /\ Cardinality(ReadersInside) >= 2
    /\ hist # << >>
    /\ ipc = "unmarshal"
    /\ Unmarshal(imsg).err = FALSE

\* the tasks that hold latestMu, in either mode
LatestHolders ==
    { << w >> : w \in { latestMuW } \ { "none" } }
    \cup { << "handleLatest", r >> : r \in latestMuR }

\* the tasks that hold clientsMu
ClientsHolders == { clientsMu } \ { Unlocked }

\* C12: no task holds the snapshot lock and the registry lock at the same
\* time: in every state the holders of the one and the holder of the other
\* are different tasks.
C12_NoNestedLocks == LatestHolders \cap ClientsHolders = {}

\* both locks are held at once, by different tasks, and the other tasks
\* wait: a request reads and a dispatch cycle runs, while the subscriber
\* waits for latestMu and a connection waits for clientsMu
C12_Witness ==
    /\ latestMuR # {}
    /\ clientsMu = ByDispatch
    /\ ipc = "unmarshal" /\ ~Unmarshal(imsg).err
    /\ \E c \in Conns : cpc[c] \in { "register", "unregister" }

\* the dispatcher is between clientsMu.Lock() and clientsMu.Unlock()
InCycle == dpc \in { "send", "unlock" }

\* C13 (atomic iterate-and-prune): as long as a dispatch cycle holds the
\* registry, the registry is the registry at the start of the cycle less the
\* targets whose send has failed in this cycle: no registration and no
\* unregistration of a connection task takes effect before the cycle ends.
C13_AtomicIterateAndPrune ==
    InCycle => clients = cycleStart \ { c \in Conns : FailedNow(c) }

\* a cycle over two targets has ended in which the send to one failed, while
\* the other target waits to unregister and a third connection waits to
\* register
C13_Witness ==
    /\ CycleEnded
    /\ Cardinality(cycleStart) = 2
    /\ Cardinality(clients) = 1
    /\ \E c \in cycleStart \ clients : FailedNow(c)
    /\ \E c \in clients : cpc[c] = "unregister"
    /\ \E c \in Conns \ cycleStart : cpc[c] = "register"

\* connection c takes the step that unregisters it
Unregisters(c) == cpc[c] = "delete" /\ cpc'[c] = "closed"

\* C14 (unregister is idempotent): the unregistration of a connection
\* removes that connection and no other from the registry, and when the
\* connection is already absent, as after a prune by the dispatcher, it
\* leaves the registry as it is; the process keeps running.
C14_UnregisterIdempotent ==
    [][ \A c \in Conns :
           Unregisters(c) =>
               /\ c \notin clients => clients' = clients
               /\ clients' \ {c} = clients \ {c}
               /\ c \notin clients'
               /\ Running' ]_vars

\* a connection has unregistered after the dispatcher had pruned it for a
\* failed send, and other connections are still registered
C14_Witness ==
    \E c \in Conns :
        /\ cpc[c] = "closed"
        /\ \E i \in DOMAIN sends[c] : ~sends[c][i].ok
        /\ clients # {}

\* initializeLatestData has stored the snapshot it built and every query
\* step had succeeded
StartupSucceeded == mpc = "initUnlock" /\ ierr = "none"

\* the greatest timestamp of the documents of idx
MaxTimestamp(idx) ==
    CHOOSE t \in { d.timestamp : d \in idx } :
        \A d \in idx : d.timestamp <= t

\* C15 (startup reconstruction fidelity): when every query step of the
\* startup succeeds, the snapshot it stores has the maximum timestamp of the
\* documents of the index, the documents retrieved at that timestamp as its
\* packets, and their number as its count.
C15_StartupReconstruction ==
    StartupSucceeded =>
        /\ latest.Timestamp = MaxTimestamp(index)
        /\ latest.Packets \in DocsAt(index, latest.Timestamp)
        /\ latest.PacketCount = Len(latest.Packets)

\* the startup has succeeded on an index with documents at two timestamps
\* and has stored the snapshot of the smaller one
C15_Witness ==
    /\ StartupSucceeded
    /\ Cardinality({ d.timestamp : d \in index }) = 2
    /\ latest.Timestamp < MaxTimestamp(index)
    /\ latest.Packets \in DocsAt(index, latest.Timestamp)
    /\ latest.PacketCount = Len(latest.Packets)

\* the snapshot that the startup left is the empty one, which in this model
\* only a failed startup stores
StartupFailed == hist # << >> /\ hist[1] = EmptyLatest

\* C16 (startup failure is not fatal): whichever step of the startup fails,
\* the empty snapshot is stored and the startup returns; the startup is not
\* entered a second time; main goes on to start the subscriber, the
\* dispatcher and the server; and the snapshot stays empty until a merge.
C16_StartupFailureNonFatal ==
    /\ ierr # "none" =>
          /\ mpc = "initUnlock"
          /\ latest = EmptyLatest
          /\ ENABLED InitializeUnlock
    /\ mpc = "init" => hist = << >>
    /\ StartupFailed =>
          /\ mpc = "goSubscriber" => ipc = "off" /\ ENABLED GoSubscriber
          /\ mpc = "goMessages" => ipc # "off" /\ dpc = "off" /\ ENABLED GoMessages
          /\ mpc = "listen" => ipc # "off" /\ dpc # "off" /\ ENABLED ListenAndServe
          /\ mpc = "serve" => ipc # "off" /\ dpc # "off"
          /\ merged = << >> /\ WritersInside = {} => latest = EmptyLatest

\* after a failed startup the server serves, the dispatcher waits for a
\* payload and the subscriber has merged a message into the empty snapshot
C16_Witness ==
    /\ StartupFailed
    /\ mpc = "serve"
    /\ dpc = "range"
    /\ ipc = "range"
    /\ Len(hist) = 2
    /\ hist[2] # EmptyLatest

\* main is inside initializeLatestData
InStartup == mpc \in { "init", "initUnlock" }

\* C17 (startup precedes ingest): as long as the startup has not returned,
\* the subscriber has not been started and nothing has been delivered,
\* enqueued or merged; and once the subscriber has been started, the startup
\* has stored its snapshot and released the lock, and writes no more.
C17_StartupBeforeIngest ==
    /\ InStartup =>
          /\ ipc = "off"
          /\ delivered = << >> /\ enqueued = << >> /\ broadcast = << >>
          /\ merged = << >>
    /\ ipc # "off" =>
          /\ ~InStartup
          /\ hist # << >>
          /\ latestMuW # "main"
          /\ "main" \notin WritersInside

\* the subscriber is in its first merge, into the snapshot that the startup
\* reconstructed from the index, before main has started the dispatcher
C17_Witness ==
    /\ mpc = "goMessages"
    /\ ipc = "compare"
    /\ merged = << >>
    /\ hist # << >> /\ hist[1] # EmptyLatest
    /\ latest = hist[1]

\* pubsub.Receive has returned an error and startRedisSubscriber has returned
SubscriptionFailed == ipc = "failed"

\* C18 (subscription failure): when the subscription is not confirmed the
\* subscriber ends and stays ended; then no payload is ever delivered,
\* enqueued or dequeued, no WriteMessage is made, and the snapshot is the one
\* the startup stored; and the server still serves: a /latest request is
\* never kept waiting by a writer, and a connection registers as soon as no
\* other connection holds the registry.
C18_SubscriptionFailure ==
    /\ [][ SubscriptionFailed => SubscriptionFailed' ]_vars
    /\ [] ( SubscriptionFailed =>
              /\ delivered = << >> /\ enqueued = << >> /\ broadcast = << >>
              /\ dequeued = << >>
              /\ \A c \in Conns : sends[c] = << >>
              /\ hist # << >> /\ latest = hist[1] /\ merged = << >>
              /\ latestMuW = "none"
              /\ clientsMu # ByDispatch
              /\ \A r \in Readers :
                    /\ Serving /\ rpc[r] = "idle" => ENABLED LatestBegin(r)
                    /\ Running /\ rpc[r] = "rlock" => ENABLED LatestRLock(r)
                    /\ HasCopied(r) => rdata[r] = hist[1]
              /\ \A c \in 1..LockConns :
                    /\ Serving /\ cpc[c] = "idle" => ENABLED WsUpgrade(c)
                    /\ Running /\ cpc[c] = "register" /\ clientsMu = Unlocked
                          => ENABLED WsLock(c)
                    /\ Running /\ cpc[c] = "insert" => ENABLED WsInsert(c) )

\* the subscription has failed; since then a connection has registered and
\* a /latest request has copied the startup snapshot, and the dispatcher
\* waits for a payload
C18_Witness ==
    /\ SubscriptionFailed
    /\ dpc = "range"
    /\ clients # {}
    /\ \E r \in Readers : rpc[r] = "encode" /\ rdata[r] = hist[1]

\* the snapshot that a merge of message m into snapshot l leaves
MergeOf(l, m) ==
    IF SameTimestamp(l, m)
    THEN AccumulatePackets(AccumulateCount(l, m), m)
    ELSE ReplaceLatest(m)

\* C19 (the snapshot reader has no side effects): no step of a /latest
\* request, the response and the failed response included, changes the
\* snapshot, the queue or the registry; and with requests in progress every
\* merge starts from the snapshot the last write left and ends with the
\* merge of its message into it.
C19_ReaderNoSideEffects ==
    /\ [][ rpc' # rpc =>
              UNCHANGED << latest, broadcast, clients, hist, merged, enqueued,
                           dequeued, sends >> ]_vars
    /\ [] ( /\ WritersInside = { "subscriber" } => pre = hist[Len(hist)]
            /\ MergeApplied => latest = MergeOf(pre, Incoming) )

\* a message has been merged while two requests were in progress: one has
\* copied the snapshot before the merge, the other the snapshot after it
C19_Witness ==
    /\ Len(hist) = 2
    /\ hist[2] = MergeOf(hist[1], Unmarshal(merged[1]).msg)
    /\ hist[2] # hist[1]
    /\ \E r1, r2 \in AllReaders :
          /\ rpc[r1] = "encode" /\ rdata[r1] = hist[1]
          /\ rpc[r2] = "encode" /\ rdata[r2] = hist[2]

\* the subscriber is past the send of the current message and before the
\* next receive
PastSend == ipc \in { "unmarshal", "compare", "append", "unlock" }

\* C20 (every message is enqueued): a delivered message stays the current
\* one, neither parsed nor replaced by the next, until it is sent on the
\* channel, however long the channel is full; past the send, and between
\* messages, the payloads enqueued are exactly the payloads delivered, those
\* that do not parse included, each once and unchanged; and only payloads
\* already enqueued have been merged.
C20_EnqueueEveryMessage ==
    /\ AtSend =>
          /\ enqueued \o << imsg >> = delivered
          /\ ~ENABLED SubReceive(MaxMsgs, Payloads)
          /\ ~ENABLED SubClosed
          /\ ~ENABLED SubUnmarshalErr
          /\ ~ENABLED SubLock
    /\ PastSend => enqueued = delivered /\ enqueued[Len(enqueued)] = imsg
    /\ ipc \in { "range", "done" } => enqueued = delivered
    /\ merged = SubSeq(ParsedOf(enqueued), 1, Len(merged))

\* one more payload than the channel holds has been delivered, the last one
\* does not parse, and every one of them has been enqueued; the channel is
\* full again after one dequeue
C20_Witness ==
    /\ ipc = "range"
    /\ Len(delivered) = QueueCap + 1
    /\ ~Parses(delivered[Len(delivered)])
    /\ enqueued = delivered
    /\ Len(dequeued) = 1
    /\ Len(broadcast) = QueueCap

\* C21 (queue bound): the broadcast channel holds between 0 and QueueCap
\* payloads in every state.
C21_QueueBound == Len(broadcast) \in 0..QueueCap

\* the channel is full for the second time: it was filled, a payload has
\* been dequeued and the channel has been filled again
C21_Witness ==
    /\ Len(broadcast) = QueueCap
    /\ Len(dequeued) = 1
    /\ Len(enqueued) = QueueCap + 1

\* the count of a snapshot or of a parsed message is the number of its packets
Consistent(x) == x.PacketCount = Len(x.Packets)

\* the startup snapshot and every message merged so far or being merged
\* have a count equal to the number of their packets
ConsistentInputs ==
    /\ hist # << >> => Consistent(hist[1])
    /\ \A i \in DOMAIN merged : Consistent(Unmarshal(merged[i]).msg)
    /\ "subscriber" \in WritersInside => Consistent(Incoming)

\* C22 as stated (count/events consistency): with consistent inputs, the
\* count of the snapshot is the number of its packets in every state.
C22_CountMatchesEvents_Stated == ConsistentInputs => Consistent(latest)

\* C22 as amended: with consistent inputs, the count of the snapshot is the
\* number of its packets in every state in which latestMu is not held for
\* writing, hence in every snapshot that a request can copy.
C22_CountMatchesEvents ==
    /\ ConsistentInputs /\ latestMuW = "none" => Consistent(latest)
    /\ ConsistentInputs => \A r \in AllReaders : Consistent(rdata[r])

\* two consistent messages of one timestamp have been merged, the second
\* into the first, and the lock is free
C22_Witness ==
    /\ ConsistentInputs
    /\ latestMuW = "none"
    /\ Len(merged) = 2
    /\ latest.PacketCount >= 2
    /\ Consistent(latest)

\* the subscriber waits at broadcast <- msg.Payload on a full channel
Blocked == AtSend /\ ~CanSend(broadcast)

\* C23 (backpressure stalls aggregation): as long as the subscriber waits
\* on the full channel it takes no step: the snapshot stays as it is and no
\* message is received, enqueued or merged; in that state the snapshot is
\* the result of the last merge and exactly the parsed payloads enqueued
\* before have been merged, so that the waiting message and the later ones
\* are merged only after its send.
C23_BackpressureStalls ==
    /\ [][ Blocked =>
              UNCHANGED << ipc, imsg, latest, delivered, enqueued, merged,
                           hist >> ]_vars
    /\ [] ( Blocked =>
              /\ latest = hist[Len(hist)]
              /\ merged = ParsedOf(enqueued)
              /\ enqueued \o << imsg >> = delivered )
    /\ [] ( Len(merged) <= Len(ParsedOf(enqueued)) )

\* the subscriber waits on the full channel with a message that parses,
\* after the merge of the two messages that fill the channel
C23_Witness ==
    /\ Blocked
    /\ Parses(imsg)
    /\ Len(merged) = QueueCap
    /\ dequeued = << >>
    /\ latest # hist[1]

\* connection c has completed its registration and not its unregistration
Registered(c) == cpc[c] \in { "read", "unregister" }

\* a WriteMessage to c has failed in a cycle before the current one
PrunedBefore(c) ==
    \E i \in DOMAIN sends[c] : ~sends[c][i].ok /\ sends[c][i].cycle < ThisCycle

\* the registration of c is pending
Pending(c) == cpc[c] = "register"

\* C24 as stated (registration eligibility), its second part: a connection
\* whose registration was made while a cycle held the registry is
\* registered when the next cycle holds it.
C24_RegistrationEligibility_Stated ==
    \A c \in Conns :
        InCycle /\ waitedAt[c] # 0 /\ ThisCycle = waitedAt[c] + 1 => ~Pending(c)

\* C24 as amended: a cycle goes over exactly the connections that are
\* registered and not pruned when it takes the lock, and when it ends it
\* has made one WriteMessage of its payload to each of them; a registration
\* that is pending during a cycle does not proceed, the connection is not
\* in the registry and is sent nothing, whichever cycle it is.
C24_RegistrationEligibility ==
    /\ InCycle =>
          cycleStart = { c \in Conns : Registered(c) /\ ~PrunedBefore(c) }
    /\ CycleEnded =>
          \A c \in cycleStart :
              /\ Cardinality(SendsIn(c, ThisCycle)) = 1
              /\ \A i \in SendsIn(c, ThisCycle) : sends[c][i].payload = dmsg
    /\ \A c \in Conns :
          Pending(c) =>
              /\ c \notin clients /\ sends[c] = << >>
              /\ InCycle => ~ENABLED WsLock(c)

\* the second cycle has ended: a connection registered between the cycles
\* and was sent the second payload only, and the registration of another
\* connection, made during the first cycle, is still pending
C24_Witness ==
    /\ CycleEnded
    /\ ThisCycle = 2
    /\ \E c \in cycleStart :
          /\ Len(sends[c]) = 1
          /\ sends[c][1].cycle = 2 /\ sends[c][1].payload = dmsg
    /\ \E c \in Conns : Pending(c) /\ waitedAt[c] = 1

\* connection c has been removed from the registry: by the dispatcher after
\* a failed WriteMessage, or by its own task
Removed(c) ==
    \/ cpc[c] = "closed"
    \/ \E i \in DOMAIN sends[c] : ~sends[c][i].ok

\* C25 (no reuse after removal): a connection enters the registry only by
\* the insert of its own task, before anything was sent to it, and its task
\* never returns to the registration; once removed it is not in the
\* registry again and no WriteMessage is made on it.
C25_NoReuseAfterRemoval ==
    /\ [][ \A c \in Conns :
              /\ c \in clients' \ clients =>
                    cpc[c] = "insert" /\ sends[c] = << >> /\ ~Removed(c)
              /\ cpc'[c] \in { "register", "insert" } =>
                    cpc[c] \in { "idle", "register", "insert" }
              /\ Removed(c) => sends'[c] = sends[c] /\ Removed(c)' ]_vars
    /\ [] ( \A c \in Conns : Removed(c) => c \notin clients /\ c \notin dtodo )

\* the second cycle has ended and has served a connection, while another
\* connection, served in the first cycle and since closed by its task, and a
\* third, pruned in the first cycle, were left out
C25_Witness ==
    /\ CycleEnded
    /\ ThisCycle = 2
    /\ \E a, b, c \in Conns :
          /\ a \in clients /\ Len(sends[a]) = 2
          /\ cpc[b] = "closed" /\ Len(sends[b]) = 1 /\ sends[b][1].ok
          /\ cpc[c] # "closed" /\ Len(sends[c]) = 1 /\ ~sends[c][1].ok

\* the stage of startRedisSubscriber: not started, subscribing, consuming,
\* returned
Stage(pc) ==
    CASE pc = "off" -> 0
      [] pc = "subscribing" -> 1
      [] pc \in { "range", "send", "unmarshal", "compare", "append", "unlock" } -> 2
      [] pc \in { "done", "failed" } -> 3

\* startRedisSubscriber has returned
Terminated == ipc \in { "done", "failed" }

\* C26 (ingest loop termination): the subscriber goes from subscribing to
\* consuming to returned, or from subscribing to returned on failure, and
\* never back; once it has returned nothing more is delivered, enqueued or
\* merged; and when the channel is closed after finitely many messages and
\* the dispatcher keeps dequeuing, it returns, as long as the process runs.
C26_IngestTermination ==
    /\ [][ /\ Stage(ipc') >= Stage(ipc)
           /\ ipc' = "failed" => ipc \in { "subscribing", "failed" }
           /\ ipc' = "done" => ipc \in { "range", "done" }
           /\ Terminated =>
                 UNCHANGED << ipc, delivered, enqueued, merged, latest, hist >>
         ]_vars
    /\ <>( Terminated \/ ~Running )

\* the channel was closed after MaxMsgs messages, the last of which had to
\* wait for a dequeue, and the subscriber has returned with all of them
\* enqueued and the parsed ones merged
C26_Witness ==
    /\ ipc = "done"
    /\ Running
    /\ Len(delivered) = MaxMsgs
    /\ enqueued = delivered
    /\ merged = ParsedOf(delivered)
    /\ merged # << >>

\* the dispatch cycles that have run to their Unlock
CyclesDone ==
    IF dpc \in { "lock", "send", "unlock" } THEN Len(dequeued) - 1
    ELSE Len(dequeued)

\* connection c waits for clientsMu, to register or to unregister
WaitsForClients(c) == cpc[c] \in { "register", "unregister" }

\* the task that holds a mutex can take its next step
HoldersCanStep ==
    /\ latestMuW = "subscriber" =>
          ENABLED (SubAccumulateCount \/ SubAccumulatePackets \/ SubReplace
                   \/ SubUnlock)
    /\ clientsMu = ByDispatch => ENABLED (MsgSend \/ MsgSent \/ MsgUnlock)
    /\ \A c \in Conns :
          clientsMu = ByConn(c) => ENABLED (WsInsert(c) \/ WsDelete(c))

\* C27 (pipeline progress): as long as the process runs and every
\* WriteMessage returns, the k-th payload enqueued is dequeued and its
\* cycle runs to its end; a send that waits on the channel completes; a
\* connection that waits for the registry lock gets it; and the holder of
\* a lock is never itself kept waiting, so that the tasks are never all
\* waiting for locks.
C27_PipelineProgress ==
    /\ \A k \in 1..PipeMsgs :
          (Len(enqueued) >= k) ~> (CyclesDone >= k \/ ~Running)
    /\ \A k \in 1..PipeMsgs :
          (ipc = "send" /\ Len(delivered) = k)
              ~> (Len(enqueued) >= k \/ ~Running)
    /\ \A c \in 1..PipeConns :
          WaitsForClients(c) ~> (~WaitsForClients(c) \/ ~Running)
    /\ [] ( Running => HoldersCanStep )

\* the subscriber waits on the full channel with the last message, the
\* dispatcher has yet to dequeue, and a connection waits to unregister
\* while no cycle has run
C27_Witness ==
    /\ Blocked
    /\ Len(delivered) = PipeMsgs
    /\ dpc = "range"
    /\ CyclesDone = 0
    /\ \E c \in 1..PipeConns : cpc[c] = "unregister"

\* the messages merged so far, as parsed
MergedMsgs == [i \in DOMAIN merged |-> Unmarshal(merged[i]).msg]

\* the first position of the maximal run of messages at the end of msgs that
\* have the timestamp of the last one
RECURSIVE RunStart(_, _)
RunStart(msgs, i) ==
    IF i > 1 /\ msgs[i - 1].Timestamp = msgs[Len(msgs)].Timestamp
    THEN RunStart(msgs, i - 1)
    ELSE i

\* the sum of the counts and the concatenation of the packets of msgs
RECURSIVE SumCounts(_)
SumCounts(msgs) ==
    IF msgs = << >> THEN 0 ELSE msgs[1].PacketCount + SumCounts(Tail(msgs))

RECURSIVE ConcatPackets(_)
ConcatPackets(msgs) ==
    IF msgs = << >> THEN << >> ELSE msgs[1].Packets \o ConcatPackets(Tail(msgs))

\* the snapshot that the trailing run of msgs gives, after startup snapshot
\* start
TrailingRun(start, msgs) ==
    LET n == Len(msgs)
        t == msgs[n].Timestamp
        from == RunStart(msgs, n)
        run == SubSeq(msgs, from, n)
        extended == from = 1 /\ start.Timestamp = t
    IN  [Timestamp |-> t,
         PacketCount |-> (IF extended THEN start.PacketCount ELSE 0)
                         + SumCounts(run),
         Packets |-> (IF extended THEN start.Packets ELSE << >>)
                     \o ConcatPackets(run)]

\* C28 (trailing run): once messages have been merged, the snapshot stored
\* by the last merge, which is the snapshot whenever no merge is in
\* progress, has the timestamp of the last merged message, and as count and
\* packets the sum and the concatenation over the maximal run of merged
\* messages of that timestamp at the end, after those of the startup
\* snapshot when it has that timestamp and the run is all that was merged.
C28_TrailingRun ==
    merged # << >> =>
        /\ hist[Len(hist)] = TrailingRun(hist[1], MergedMsgs)
        /\ "subscriber" \notin WritersInside => latest = hist[Len(hist)]

\* three messages have been merged after a startup snapshot of timestamp 1:
\* one of another timestamp, then two of timestamp 1, which alone make up
\* the snapshot
C28_Witness ==
    /\ Len(merged) = 3
    /\ "subscriber" \notin WritersInside
    /\ hist[1].Timestamp = 1
    /\ MergedMsgs[1].Timestamp = 2
    /\ MergedMsgs[2].Timestamp = 1
    /\ MergedMsgs[3].Timestamp = 1
    /\ MergedMsgs[2] # MergedMsgs[3]
    /\ latest.Packets = MergedMsgs[2].Packets \o MergedMsgs[3].Packets
    /\ latest.PacketCount = MergedMsgs[2].PacketCount + MergedMsgs[3].PacketCount

\* connection c is in the registry unless the dispatcher has pruned it
InWindow(c) == cpc[c] \in { "read", "unregister", "delete" } /\ ~Removed(c)

\* the cycles that have gone past connection c, whether or not c was in them
CyclesPast(c) ==
    IF InCycle /\ c \in dtodo THEN Len(dequeued) - 1 ELSE CyclesBegun

\* C29 (gap-free window): the WriteMessage calls made on a connection are
\* for consecutive cycles, one each, and carry the payloads the source
\* delivered at those positions; the first is for the first cycle that took
\* the lock after the connection registered; as long as the connection is
\* registered and not pruned no cycle has gone past it without a write; and
\* only the last write can have failed.
C29_GapFreeWindow ==
    \A c \in Conns :
        LET s == sends[c]
        IN  /\ \A i \in DOMAIN s :
                  /\ s[i].cycle = s[1].cycle + (i - 1)
                  /\ s[i].cycle \in DOMAIN delivered
                  /\ s[i].payload = delivered[s[i].cycle]
                  /\ i < Len(s) => s[i].ok
            /\ s # << >> /\ cpc[c] # "closed" => s[1].cycle = regAt[c] + 1
            /\ InWindow(c) => Len(s) = CyclesPast(c) - regAt[c]

\* a connection that registered after the first cycle has been sent the
\* second payload and no other, while a connection that registered before
\* the first cycle has been sent both, and both are still registered
C29_Witness ==
    /\ CyclesBegun = 2
    /\ dpc = "range"
    /\ delivered[1] # delivered[2]
    /\ \E a, b \in Conns :
          /\ InWindow(a) /\ regAt[a] = 0 /\ Len(sends[a]) = 2
          /\ InWindow(b) /\ regAt[b] = 1 /\ Len(sends[b]) = 1
          /\ sends[b][1].payload = delivered[2]

\* the records appended to the writes of connection c by the step
Appended(c) ==
    IF Len(sends'[c]) > Len(sends[c])
        THEN SubSeq(sends'[c], Len(sends[c]) + 1, Len(sends'[c]))
        ELSE << >>

\* C30 (no replay): the payloads dequeued so far are the payloads enqueued
\* so far without those still queued, each position once; a receive removes
\* the payload it takes from the queue and nothing but the subscriber's send
\* adds to the queue; a write is made only inside a cycle, to a connection
\* that was registered when the cycle took the lock, for the payload of that
\* cycle and once; so a cycle that found no connection writes nothing, and a
\* connection is never written a payload whose cycle took the lock before
\* the connection registered.
C30_NoReplay ==
    /\ [] ( /\ Len(dequeued) + Len(broadcast) = Len(enqueued)
            /\ \A k \in DOMAIN dequeued : dequeued[k] = enqueued[k]
            /\ dpc \in { "lock", "send", "unlock" } =>
                   dmsg = dequeued[Len(dequeued)]
            /\ \A c \in Conns : \A i \in DOMAIN sends[c] :
                   /\ sends[c][i].cycle <= Len(dequeued)
                   /\ sends[c][i].payload = dequeued[sends[c][i].cycle]
                   /\ Cardinality(SendsIn(c, sends[c][i].cycle)) = 1 )
    /\ [][ /\ dequeued' # dequeued =>
                  /\ broadcast # << >>
                  /\ dequeued' = Append(dequeued, Head(broadcast))
                  /\ broadcast' = Tail(broadcast)
           /\ Len(broadcast') > Len(broadcast) =>
                  /\ dequeued' = dequeued
                  /\ Len(enqueued') = Len(enqueued) + 1
                  /\ broadcast' = Append(broadcast, enqueued'[Len(enqueued')])
           /\ \A c \in Conns :
                  /\ SubSeq(sends'[c], 1, Len(sends[c])) = sends[c]
                  /\ Len(sends'[c]) >= Len(sends[c])
                  /\ Appended(c) # << >> =>
                         /\ InCycle
                         /\ c \in cycleStart
                         /\ dequeued' = dequeued
                         /\ Len(Appended(c)) = 1
                         /\ Appended(c)[1].cycle = Len(dequeued)
                         /\ Appended(c)[1].cycle > regAt[c] ]_vars

\* the first cycle found no connection and wrote nothing; a connection that
\* registered after it has been written the second payload, which differs
\* from the first, and nothing else
C30_Witness ==
    /\ Len(dequeued) = 2
    /\ dequeued[1] # dequeued[2]
    /\ dpc = "unlock"
    /\ \A c \in Conns : SendsIn(c, 1) = {}
    /\ \E c \in Conns :
          /\ regAt[c] = 1
          /\ Len(sends[c]) = 1
          /\ sends[c][1].payload = dequeued[2]

\* the number of enqueued payloads whose parse and merge are over
Settled == IF PastSend THEN Len(enqueued) - 1 ELSE Len(enqueued)

\* C31 (the aggregate never runs ahead of the queue): the messages merged
\* are exactly the payloads that parse among the enqueued ones whose turn is
\* over, which are all the enqueued ones but at most the last; the one
\* still awaiting its parse or merge is the current message, and it is the
\* only one the write lock is taken for; outside a merge the snapshot is the
\* one the last finished merge (or the startup) left, so it reflects merged
\* messages only.
C31_AggregateBehindQueue ==
    /\ Len(enqueued) - Len(merged) >= 0
    /\ PastSend => enqueued # << >> /\ imsg = enqueued[Len(enqueued)]
    /\ merged = ParsedOf(SubSeq(enqueued, 1, Settled))
    /\ \A i \in DOMAIN merged : \E k \in DOMAIN enqueued : enqueued[k] = merged[i]
    /\ WritersInside = { "subscriber" } => Parses(imsg) /\ PastSend
    /\ AtSend => WritersInside = {} /\ merged = ParsedOf(enqueued)
    /\ hist # << >> /\ WritersInside = {} =>
           /\ Len(hist) = Len(merged) + 1
           /\ latest = hist[Len(hist)]

\* the second payload has been enqueued and dequeued for dispatch while the
\* subscriber has not yet parsed it: the snapshot reflects the first message
\* only
C31_Witness ==
    /\ ipc = "unmarshal"
    /\ Parses(imsg)
    /\ Len(enqueued) = 2
    /\ Len(merged) = 1
    /\ dequeued = enqueued
    /\ dpc = "range"
    /\ latest = hist[2]

\* the subscriber's loop has ended because its channel was closed
IngestClosed == ipc = "done"

\* the dispatcher waits on the empty channel after the subscriber has returned
Drained ==
    /\ IngestClosed
    /\ dpc = "range"
    /\ broadcast = << >>

\* C32 (dispatch outlives ingest): once the subscriber has returned on the
\* closure of its channel, and as long as the process runs and every
\* WriteMessage returns, the dispatcher dequeues every payload left on
\* broadcast and runs its cycle to the end; it then waits on the empty
\* channel, where it has no step, and stays there; and once started the
\* dispatcher is always at a position of its loop, for nothing closes
\* broadcast.
C32_DispatchOutlivesIngest ==
    /\ IngestClosed ~>
          ( ~Running \/ ( /\ Drained
                          /\ dequeued = enqueued
                          /\ CyclesDone = Len(enqueued) ) )
    /\ [] ( Drained => ~ENABLED Messages )
    /\ [][ /\ Drained => Drained'
           /\ IngestClosed /\ dequeued' # dequeued =>
                  dequeued' = Append(dequeued, Head(broadcast))
           /\ dpc # "off" => dpc' \in { "range", "lock", "send", "unlock" }
         ]_vars

\* the subscriber has returned after its last payload while the process
\* runs; one payload is still on the channel and the dispatcher is writing
\* an earlier one to a registered connection
C32_Witness ==
    /\ IngestClosed
    /\ Running
    /\ Len(enqueued) = PipeMsgs
    /\ Len(broadcast) = 1
    /\ dpc = "send"
    /\ dtodo # {}

\* the positions between a Lock and its Unlock, in each kind of task
IngestHolds == ipc \in { "compare", "append", "unlock" }
DispatchHolds == dpc \in { "send", "unlock" }
ConnHolds(c) == cpc[c] \in { "insert", "delete" }

\* C33 (every Lock has its Unlock): the subscriber holds latestMu exactly
\* at the positions of the accumulate/replace step, so not at the receive,
\* the send on broadcast, the parse or its skip, nor after it has returned;
\* the dispatcher holds clientsMu exactly from the Lock of a cycle to its
\* Unlock, takes no payload meanwhile and does not hold it while it waits
\* on broadcast; a connection holds clientsMu exactly for its insert or its
\* delete, not while it reads or after it has returned; each of them leaves
\* those positions only by the step that releases the lock, which happens
\* as long as the process runs and every WriteMessage returns.
C33_LockReleaseMatching ==
    /\ [] ( /\ latestMuW = "subscriber" <=> IngestHolds
            /\ clientsMu = ByDispatch <=> DispatchHolds
            /\ \A c \in Conns : clientsMu = ByConn(c) <=> ConnHolds(c)
            /\ clientsMu \in { Unlocked, ByDispatch }
                               \cup { ByConn(c) : c \in Conns } )
    /\ [][ /\ IngestHolds =>
                  /\ UNCHANGED << imsg, delivered, enqueued >>
                  /\ ~IngestHolds' => latestMuW' = "none" /\ ipc' = "range"
           /\ DispatchHolds =>
                  /\ UNCHANGED << dmsg, dequeued >>
                  /\ ~DispatchHolds' => clientsMu' = Unlocked /\ dpc' = "range"
           /\ \A c \in Conns :
                  ConnHolds(c) /\ cpc'[c] # cpc[c] =>
                      /\ clientsMu' = Unlocked
                      /\ cpc'[c] \in { "read", "closed" }
                      /\ clients' \in { clients \cup {c}, clients \ {c} }
         ]_vars
    /\ latestMuW = "subscriber" ~> ( latestMuW = "none" \/ ~Running )
    /\ clientsMu = ByDispatch ~> ( clientsMu # ByDispatch \/ ~Running )
    /\ \A c \in 1..PipeConns :
          clientsMu = ByConn(c) ~> ( clientsMu # ByConn(c) \/ ~Running )

\* the subscriber is inside the merge of the second message while the
\* connection, after a read error, holds clientsMu for its delete and the
\* dispatcher, with the first payload dequeued, waits for that lock
C33_Witness ==
    /\ Running
    /\ ipc = "append"
    /\ latestMuW = "subscriber"
    /\ Len(merged) = 1
    /\ \E c \in Conns : cpc[c] = "delete" /\ clientsMu = ByConn(c)
    /\ dpc = "lock"
    /\ Len(dequeued) = 1

====
